---- MODULE Spec2Model ----
(***************************************************************************)
(* Model of the two halves of the text-to-speech relay:                    *)
(*   - src/tts_server.py: the Flask handler synthesize(), run by several   *)
(*     concurrent requests over one temporary directory (Spec);            *)
(*   - src/ha_tts_adapter/tts.py: HaTtsAdapterProvider and its two call    *)
(*     variants, plus the URL the endpoint decodes (AdapterSpec).          *)
(* The libraries are modelled by what they do: urllib.parse.quote and      *)
(* unquote byte by byte, str(e) of a CalledProcessError, the exclusive     *)
(* creation of tempfile.  request.url is the URL the adapter sent.         *)
(***************************************************************************)
EXTENDS Integers, Sequences, FiniteSets, TLC

\* ------------------------------------------------------------------ bounds
\* longest message handed to the adapter, in characters
MaxLen == 2
\* concurrent requests served by the Flask process
NumRequests == 2

Requests == 1..NumRequests
\* names tempfile.NamedTemporaryFile can draw: the real pool is "tmp" followed
\* by eight random characters; a name can be drawn again once its file is gone
Names == {"tmpa", "tmpb"}

\* ------------------------------------------------------- endpoint: state
VARIABLES accentLoaded, pc, req, fs, response

evars == <<accentLoaded, pc, req, fs, response>>

\* ------------------------------------------------------- adapter: state
\* self: the provider's fields; call: the last call of get_tts_audio or
\* async_get_tts_audio and what it did; received: what synthesize() made of
\* the URL of that call
VARIABLES self, call, received

avars == <<self, call, received>>

vars == <<accentLoaded, pc, req, fs, response, self, call, received>>

\* request texts, already percent-decoded (line 71); the Cyrillic phrases of
\* the source are written in Latin letters
Texts == {"", "Ne shmogla", "Ne shm+ogla"}

WavSuffix == ".wav"
Mp3Suffix == ".mp3"
Paths == [name : Names, suffix : {WavSuffix, Mp3Suffix}]
\* a local variable that was never assigned
Unbound == [name |-> "", suffix |-> ""]

NoFile == [exists |-> FALSE, data |-> <<>>, creator |-> 0]
NoExc == [type |-> "", msg |-> "", returncode |-> 0, stderr |-> ""]
NoResponse == [status |-> 0, body |-> <<>>]

Exc(type, msg) == [type |-> type, msg |-> msg, returncode |-> 0, stderr |-> ""]

\* subprocess.run(check=True, capture_output=True) on a non-zero exit
FfmpegStderr == "libmp3lame: conversion failed"
CalledProcessError(rc) ==
    [type |-> "CalledProcessError", msg |-> "", returncode |-> rc, stderr |-> FfmpegStderr]

\* str(e): CalledProcessError.__str__ names the command and the exit status
\* only; every other exception prints its message
StrExc(e) ==
    IF e.type = "CalledProcessError"
    THEN <<"Command 'ffmpeg' returned non-zero exit status", ToString(e.returncode)>>
    ELSE <<e.msg>>

\* mp3_path = wav_path.replace('.wav', '.mp3')
ReplaceSuffix(p) ==
    [name |-> p.name, suffix |-> IF p.suffix = WavSuffix THEN Mp3Suffix ELSE p.suffix]

\* accentizer.process_all(raw_text) when it does not raise
ProcessAll(raw) ==
    IF raw = "Ne shmogla" THEN "Ne shm+ogla" ELSE raw

\* preprocess_text with a faulty fallback: the raw text is lost
PreprocessTextNoFallback(raw, accentRaises) ==
    IF accentRaises THEN "" ELSE ProcessAll(raw)

\* preprocess_text: the accent transform, or the raw text when it raises
PreprocessText(raw, accentRaises) ==
    IF accentRaises THEN raw ELSE ProcessAll(raw)

\* line 79: the lexical patch
Patch(processed) ==
    IF processed = "Ne shm+ogla" THEN "Ne shmogl+a" ELSE processed

\* the except clauses of synthesize (lines 129-132)
ErrorResponse(e) ==
    IF e.type = "CalledProcessError"
    THEN [status |-> 500, body |-> <<"FFmpeg conversion error: ">> \o StrExc(e)]
    ELSE [status |-> 500, body |-> <<"TTS synthesis error: ">> \o StrExc(e)]

\* the handler's locals; encode, accentRaised and raisedBy (the exception the
\* failing stage raised) record the request's history
InitReq ==
    [line |-> "", accentRaised |-> FALSE, synthText |-> "", encode |-> FALSE,
     wav |-> Unbound, mp3 |-> Unbound, exc |-> NoExc, raisedBy |-> NoExc,
     audio |-> <<>>]

\* lines 41-46: accentizer.load may fail at start-up; the failure is logged and
\* the server runs on.  accentLoaded = FALSE is a server whose process_all
\* raises for every request
EndpointInit ==
    /\ accentLoaded \in BOOLEAN
    /\ pc = [r \in Requests |-> "idle"]
    /\ req = [r \in Requests |-> InitReq]
    /\ fs = [p \in Paths |-> NoFile]
    /\ response = [r \in Requests |-> NoResponse]

\* the paths request r holds and has not yet released
Using(r) ==
    (IF pc[r] \in {"save", "ffmpeg", "read", "fin_wav"}
     THEN {req[r].wav} ELSE {})
    \cup
    (IF req[r].mp3 # Unbound /\ pc[r] \in {"ffmpeg", "read", "fin_wav", "fin_mp3", "unlink_mp3"}
     THEN {req[r].mp3} ELSE {})

UsedByOthers(r) == UNION {Using(o) : o \in Requests \ {r}}

\* the paths the next statement of request r reads, writes, tests or deletes
Touches(r) ==
    CASE pc[r] \in {"save", "fin_wav"} -> {req[r].wav}
      [] pc[r] = "ffmpeg" -> {req[r].wav, req[r].mp3}
      [] pc[r] \in {"read", "unlink_mp3"} -> {req[r].mp3}
      [] pc[r] = "fin_mp3" /\ req[r].mp3 # Unbound -> {req[r].mp3}
      [] OTHER -> {}

Finish(r, resp) ==
    /\ pc' = [pc EXCEPT ![r] = "done"]
    /\ response' = [response EXCEPT ![r] = resp]

\* the handler returns: its locals go out of scope
Released(q) ==
    [q EXCEPT !.wav = Unbound, !.mp3 = Unbound, !.exc = NoExc, !.audio = <<>>]

\* an exception raised inside the inner try: run the finally block with it
RaiseInTry(r, e) ==
    /\ pc' = [pc EXCEPT ![r] = "fin_wav"]
    /\ req' = [req EXCEPT ![r].exc = e, ![r].raisedBy = e]
    /\ UNCHANGED response

\* the finally block is left with exception e in flight (NoExc: none), lines
\* 117-132: the response is built, or an except clause converts e
Leave(r, e) ==
    /\ Finish(r, IF e = NoExc
                 THEN [status |-> 200, body |-> req[r].audio]
                 ELSE ErrorResponse(e))
    /\ req' = [req EXCEPT ![r] =
                 Released([@ EXCEPT !.raisedBy = IF @ = NoExc THEN e ELSE @])]

\* lines 67-85: route check, decode, Normalize, Synthesize
Start(r) ==
    /\ UNCHANGED <<accentLoaded, avars>>
    /\ pc[r] = "idle"
    /\ \E text \in Texts, ttsRaises \in BOOLEAN :
         IF text = ""
         THEN /\ Finish(r, [status |-> 400, body |-> <<"No input">>])
              /\ UNCHANGED req
         ELSE LET accentRaises == ~accentLoaded
                  processed == Patch(PreprocessText(text, accentRaises))
                  e == Exc("RuntimeError", "tts failed")
              IN /\ req' = [req EXCEPT ![r].line = text,
                                       ![r].accentRaised = accentRaises,
                                       ![r].synthText = processed,
                                       ![r].raisedBy = IF ttsRaises THEN e ELSE NoExc]
                 /\ IF ttsRaises
                    THEN Finish(r, ErrorResponse(e))
                    ELSE /\ pc' = [pc EXCEPT ![r] = "mktemp"]
                         /\ UNCHANGED response
    /\ UNCHANGED fs

\* lines 88-89: tempfile.NamedTemporaryFile(suffix='.wav', delete=False)
MkTemp(r) ==
    /\ UNCHANGED <<accentLoaded, avars>>
    /\ pc[r] = "mktemp"
    /\ \/ \E n \in Names :
            LET p == [name |-> n, suffix |-> WavSuffix]
            IN /\ ~fs[p].exists
               /\ fs' = [fs EXCEPT ![p] = [exists |-> TRUE, data |-> <<>>, creator |-> r]]
               /\ req' = [req EXCEPT ![r].wav = p, ![r].encode = TRUE]
               /\ pc' = [pc EXCEPT ![r] = "save"]
               /\ UNCHANGED response
       \/ LET e == Exc("OSError", "no usable temporary file")
          IN /\ Finish(r, ErrorResponse(e))
             /\ req' = [req EXCEPT ![r].raisedBy = e]
             /\ UNCHANGED fs

\* lines 94-99: tts.save_wav(audio, wav_path), then mp3_path is bound
SaveWav(r) ==
    /\ UNCHANGED <<accentLoaded, avars>>
    /\ pc[r] = "save"
    /\ \/ /\ fs' = [fs EXCEPT ![req[r].wav] =
                      [exists |-> TRUE, data |-> <<"wav", req[r].synthText>>,
                       creator |-> IF @.exists THEN @.creator ELSE r]]
          /\ req' = [req EXCEPT ![r].mp3 = ReplaceSuffix(req[r].wav)]
          /\ pc' = [pc EXCEPT ![r] = "ffmpeg"]
          /\ UNCHANGED response
       \/ /\ RaiseInTry(r, Exc("OSError", "save_wav failed"))
          /\ UNCHANGED fs

\* lines 100-104: subprocess.run(['ffmpeg', '-y', '-i', wav_path, ..., mp3_path],
\* check=True, capture_output=True)
Ffmpeg(r) ==
    /\ UNCHANGED <<accentLoaded, avars>>
    /\ pc[r] = "ffmpeg"
    /\ \/ /\ fs[req[r].wav].exists
          /\ fs' = [fs EXCEPT ![req[r].mp3] =
                      [exists |-> TRUE, data |-> <<"mp3", fs[req[r].wav].data[2]>>,
                       creator |-> IF @.exists THEN @.creator ELSE r]]
          /\ pc' = [pc EXCEPT ![r] = "read"]
          /\ UNCHANGED <<req, response>>
       \/ \E partial \in BOOLEAN :
            /\ fs' = IF partial
                     THEN [fs EXCEPT ![req[r].mp3] =
                             [exists |-> TRUE, data |-> <<"mp3-partial">>,
                              creator |-> IF @.exists THEN @.creator ELSE r]]
                     ELSE fs
            /\ RaiseInTry(r, CalledProcessError(1))

\* lines 107-108: open(mp3_path, 'rb') and f.read()
ReadMp3(r) ==
    /\ UNCHANGED <<accentLoaded, avars>>
    /\ pc[r] = "read"
    /\ UNCHANGED fs
    /\ IF ~fs[req[r].mp3].exists
       THEN RaiseInTry(r, Exc("FileNotFoundError", "mp3: no such file"))
       ELSE \/ /\ req' = [req EXCEPT ![r].audio = fs[req[r].mp3].data]
               /\ pc' = [pc EXCEPT ![r] = "fin_wav"]
               /\ UNCHANGED response
            \/ RaiseInTry(r, Exc("OSError", "mp3: read failed"))

\* lines 112-113: if os.path.exists(wav_path): os.unlink(wav_path).  No other
\* request holds wav_path while this one does (tempfile creates it exclusively
\* and only its creator deletes it), so the test and the unlink are one step
FinWav(r) ==
    /\ UNCHANGED <<accentLoaded, avars>>
    /\ pc[r] = "fin_wav"
    /\ fs' = [fs EXCEPT ![req[r].wav] = NoFile]
    /\ pc' = [pc EXCEPT ![r] = "fin_mp3"]
    /\ UNCHANGED <<req, response>>

\* line 114: os.path.exists(mp3_path); mp3_path is unbound when save_wav raised
FinMp3(r) ==
    /\ UNCHANGED <<accentLoaded, avars>>
    /\ pc[r] = "fin_mp3"
    /\ IF req[r].mp3 = Unbound
       THEN /\ Leave(r, Exc("UnboundLocalError", "local variable 'mp3_path' referenced before assignment"))
            /\ UNCHANGED fs
       ELSE /\ UNCHANGED fs
            /\ IF fs[req[r].mp3].exists
               THEN /\ pc' = [pc EXCEPT ![r] = "unlink_mp3"]
                    /\ UNCHANGED <<req, response>>
               ELSE Leave(r, req[r].exc)

\* os.unlink(mp3_path) moved out of the finally block: the compressed file is
\* deleted on the success path only
UnlinkMp3OnSuccessOnly(r) ==
    /\ UNCHANGED <<accentLoaded, avars>>
    /\ pc[r] = "unlink_mp3"
    /\ fs' = IF req[r].exc = NoExc THEN [fs EXCEPT ![req[r].mp3] = NoFile] ELSE fs
    /\ Leave(r, req[r].exc)

\* line 115: os.unlink(mp3_path)
UnlinkMp3(r) ==
    /\ UNCHANGED <<accentLoaded, avars>>
    /\ pc[r] = "unlink_mp3"
    /\ IF fs[req[r].mp3].exists
       THEN /\ fs' = [fs EXCEPT ![req[r].mp3] = NoFile]
            /\ Leave(r, req[r].exc)
       ELSE /\ Leave(r, Exc("FileNotFoundError", "mp3: no such file"))
            /\ UNCHANGED fs

\* ------------------------------------------------------------- adapter
\* Text is a sequence of code points, a URL a sequence of ASCII codes.
DEFAULT_TIMEOUT == 30
DEFAULT_FORMAT == "mp3"

\* 'a', '%', '/', U+00E9 (two bytes in UTF-8), U+D800 (a lone surrogate)
Alphabet == {97, 37, 47, 233, 55296}

RECURSIVE SeqsUpTo(_)
SeqsUpTo(n) ==
    IF n = 0 THEN {<<>>}
    ELSE LET shorter == SeqsUpTo(n - 1)
         IN shorter \cup {Append(t, c) : t \in {u \in shorter : Len(u) = n - 1}, c \in Alphabet}

Messages == SeqsUpTo(MaxLen)

\* "http://h", "http://synthesize"
UrlH == <<104, 116, 116, 112, 58, 47, 47, 104>>
UrlSynthesize ==
    <<104, 116, 116, 112, 58, 47, 47, 115, 121, 110, 116, 104, 101, 115, 105, 122, 101>>
Slash == <<47>>

\* values of the base_url option: absent, "/", with and without a trailing slash
BaseUrlOptions == {<<>>, Slash, UrlH, UrlH \o Slash, UrlSynthesize \o Slash}
TimeoutOptions == {DEFAULT_TIMEOUT, 5}

\* str.rstrip("/")
RECURSIVE Rstrip(_)
Rstrip(s) ==
    IF s # <<>> /\ s[Len(s)] = 47 THEN Rstrip(SubSeq(s, 1, Len(s) - 1)) ELSE s

\* __init__ (lines 51-58)
NewProvider(baseUrlOption, timeoutOption) ==
    [base_url |-> Rstrip(baseUrlOption), timeout |-> timeoutOption,
     format |-> DEFAULT_FORMAT]

IsSurrogate(cp) == cp >= 55296 /\ cp <= 57343

\* str.encode('utf-8') of one code point
Utf8(cp) ==
    IF cp < 128 THEN <<cp>>
    ELSE IF cp < 2048 THEN <<192 + (cp \div 64), 128 + (cp % 64)>>
    ELSE IF cp < 65536
         THEN <<224 + (cp \div 4096), 128 + ((cp \div 64) % 64), 128 + (cp % 64)>>
         ELSE <<240 + (cp \div 262144), 128 + ((cp \div 4096) % 64),
                128 + ((cp \div 64) % 64), 128 + (cp % 64)>>

\* urllib.parse._ALWAYS_SAFE: letters, digits and "_.-~"
AlwaysSafe(b) ==
    \/ b >= 65 /\ b <= 90
    \/ b >= 97 /\ b <= 122
    \/ b >= 48 /\ b <= 57
    \/ b \in {95, 46, 45, 126}

HexDigit(n) == IF n < 10 THEN 48 + n ELSE 55 + n

\* quote_from_bytes with safe="": every byte not always-safe becomes %XX
QuoteByte(b) ==
    IF AlwaysSafe(b) THEN <<b>> ELSE <<37, HexDigit(b \div 16), HexDigit(b % 16)>>

RECURSIVE QuoteBytes(_)
QuoteBytes(bs) ==
    IF bs = <<>> THEN <<>> ELSE QuoteByte(Head(bs)) \o QuoteBytes(Tail(bs))

\* quote(message, safe=""): UnicodeEncodeError on a lone surrogate
QuoteRaises(message) == \E i \in 1..Len(message) : IsSurrogate(message[i])

RECURSIVE Quote(_)
Quote(message) ==
    IF message = <<>> THEN <<>>
    ELSE QuoteBytes(Utf8(Head(message))) \o Quote(Tail(message))

\* "/synthesize/"
SynthesizePath == <<47, 115, 121, 110, 116, 104, 101, 115, 105, 122, 101, 47>>

\* f"{self._base_url}/synthesize/{encoded_text}" (lines 88-89, 142-143)
BuildUrl(base_url, message) == base_url \o SynthesizePath \o Quote(message)

\* ------------------------------------------- endpoint: decoding the URL
\* int(c, 16) of one hex digit, -1 when c is none
HexVal(c) ==
    IF c >= 48 /\ c <= 57 THEN c - 48
    ELSE IF c >= 65 /\ c <= 70 THEN c - 55
    ELSE IF c >= 97 /\ c <= 102 THEN c - 87
    ELSE -1

\* urllib.parse.unquote_to_bytes: %XX with two hex digits is one byte, any
\* other '%' stays
RECURSIVE UnquoteToBytes(_)
UnquoteToBytes(s) ==
    IF s = <<>> THEN <<>>
    ELSE IF s[1] = 37 /\ Len(s) >= 3 /\ HexVal(s[2]) >= 0 /\ HexVal(s[3]) >= 0
         THEN <<(16 * HexVal(s[2])) + HexVal(s[3])>> \o UnquoteToBytes(SubSeq(s, 4, Len(s)))
         ELSE <<s[1]>> \o UnquoteToBytes(Tail(s))

IsContinuation(bs, i) == Len(bs) >= i /\ bs[i] >= 128 /\ bs[i] <= 191

\* bytes.decode('utf-8', 'replace'): sequences of one to three bytes, U+FFFD
\* for a byte that starts no valid sequence
RECURSIVE Utf8Decode(_)
Utf8Decode(bs) ==
    IF bs = <<>> THEN <<>>
    ELSE IF bs[1] < 128 THEN <<bs[1]>> \o Utf8Decode(Tail(bs))
    ELSE IF bs[1] >= 194 /\ bs[1] <= 223 /\ IsContinuation(bs, 2)
         THEN <<((bs[1] - 192) * 64) + (bs[2] - 128)>> \o Utf8Decode(SubSeq(bs, 3, Len(bs)))
    ELSE IF /\ bs[1] >= 224 /\ bs[1] <= 239
            /\ IsContinuation(bs, 2) /\ IsContinuation(bs, 3)
            /\ (bs[1] = 224 => bs[2] >= 160)
            /\ (bs[1] = 237 => bs[2] <= 159)
         THEN <<((bs[1] - 224) * 4096) + ((bs[2] - 128) * 64) + (bs[3] - 128)>>
              \o Utf8Decode(SubSeq(bs, 4, Len(bs)))
    ELSE <<65533>> \o Utf8Decode(Tail(bs))

\* the longest prefix of s made of ASCII characters
RECURSIVE AsciiPrefixLen(_)
AsciiPrefixLen(s) ==
    IF s = <<>> \/ s[1] >= 128 THEN 0 ELSE 1 + AsciiPrefixLen(Tail(s))

\* urllib.parse.unquote: each run of ASCII characters is unquoted to bytes and
\* decoded as UTF-8; the other characters are kept
RECURSIVE Unquote(_)
Unquote(s) ==
    IF s = <<>> THEN <<>>
    ELSE LET n == AsciiPrefixLen(s)
         IN IF n = 0 THEN <<s[1]>> \o Unquote(Tail(s))
            ELSE Utf8Decode(UnquoteToBytes(SubSeq(s, 1, n)))
                 \o Unquote(SubSeq(s, n + 1, Len(s)))

\* "synthesize/"
Marker == Tail(SynthesizePath)

IsAt(s, m, i) == i + Len(m) <= Len(s) /\ SubSeq(s, i + 1, i + Len(m)) = m

\* str.find: the lowest index (from 0) at which m occurs in s, or -1
Find(s, m) ==
    IF \E i \in 0..Len(s) : IsAt(s, m, i)
    THEN CHOOSE i \in 0..Len(s) : IsAt(s, m, i) /\ \A j \in 0..(i - 1) : ~IsAt(s, m, j)
    ELSE -1

\* line 71: urllib.parse.unquote(request.url[request.url.find('synthesize/') + 11:])
DecodeLine(url) == Unquote(SubSeq(url, Find(url, Marker) + 11 + 1, Len(url)))

\* ---------------------------------------------------- adapter: the calls
None == [none |-> TRUE, format |-> "", data |-> <<>>]
Audio(format, data) == [none |-> FALSE, format |-> format, data |-> data]
NoLog == [template |-> "", args |-> <<>>]

\* "base_url" (CONF_BASE_URL)
CONF_BASE_URL == <<98, 97, 115, 101, 95, 117, 114, 108>>
\* str(exc) of a connection failure: "ERR"
ConnectionErrorText == <<69, 82, 82>>

\* what the endpoint and the network do with one GET
Bodies == {<<>>, <<73, 68, 51>>, <<255>>}
Envs ==
    [kind : {"response"}, status : {200, 404, 500}, body : Bodies]
    \cup [kind : {"timeout", "transport"}, status : {0}, body : {<<>>}]

\* text[:n]
Prefix(text, n) == SubSeq(text, 1, IF Len(text) < n THEN Len(text) ELSE n)

Returned(ret, log, netCalls, sessions, url) ==
    [returned |-> TRUE, ret |-> ret, raised |-> "", log |-> log,
     netCalls |-> netCalls, sessions |-> sessions, url |-> url]

\* an exception leaves the method: nothing is returned and nothing logged
Raised(type, netCalls, sessions) ==
    [returned |-> FALSE, ret |-> None, raised |-> type, log |-> NoLog,
     netCalls |-> netCalls, sessions |-> sessions, url |-> <<>>]

\* lines 82-86 and 135-139
MissingBaseUrl ==
    Returned(None,
             [template |-> "TTS configuration error in ha_tts_adapter: missing '%s' base URL",
              args |-> <<CONF_BASE_URL>>],
             0, 0, <<>>)

\* lines 146-162: the blocking variant maps the response
SyncMapResponse(p, url, status, body) ==
    IF status # 200
    THEN Returned(None,
                  [template |-> "TTS HTTP %s at %s in ha_tts_adapter: %s",
                   args |-> <<(<<status>>), url, Prefix(Utf8Decode(body), 256)>>],
                  1, 0, url)
    ELSE IF body = <<>>
    THEN Returned(None,
                  [template |-> "TTS empty audio at %s in ha_tts_adapter: zero-length response",
                   args |-> <<url>>],
                  1, 0, url)
    ELSE Returned(Audio(p.format, body), NoLog, 1, 0, url)

\* lines 134-176: get_tts_audio
GetTtsAudio(p, message, env) ==
    IF p.base_url = <<>> THEN MissingBaseUrl
    ELSE IF QuoteRaises(message)
    \* neither except clause names UnicodeEncodeError
    THEN Raised("UnicodeEncodeError", 0, 0)
    ELSE LET url == BuildUrl(p.base_url, message)
         IN CASE env.kind = "timeout" ->
                   Returned(None,
                            [template |-> "TTS timeout at %s in ha_tts_adapter: exceeded %s seconds",
                             args |-> <<p.base_url, (<<p.timeout>>)>>],
                            1, 0, url)
              [] env.kind = "transport" ->
                   Returned(None,
                            [template |-> "TTS request exception at %s in ha_tts_adapter: %s",
                             args |-> <<p.base_url, ConnectionErrorText>>],
                            1, 0, url)
              [] OTHER -> SyncMapResponse(p, url, env.status, env.body)

\* the response mapping without its zero-length check
AsyncMapResponseNoEmptyCheck(p, url, status, body) ==
    IF status # 200
    THEN Returned(None,
                  [template |-> "TTS HTTP %s at %s in ha_tts_adapter: %s",
                   args |-> <<(<<status>>), url, Prefix(Utf8Decode(body), 256)>>],
                  1, 1, url)
    ELSE Returned(Audio(p.format, body), NoLog, 1, 1, url)

\* lines 100-116: the suspending variant maps the response
AsyncMapResponse(p, url, status, body) ==
    IF status # 200
    THEN Returned(None,
                  [template |-> "TTS HTTP %s at %s in ha_tts_adapter: %s",
                   args |-> <<(<<status>>), url, Prefix(Utf8Decode(body), 256)>>],
                  1, 1, url)
    ELSE IF body = <<>>
    THEN Returned(None,
                  [template |-> "TTS empty audio at %s in ha_tts_adapter: zero-length response",
                   args |-> <<url>>],
                  1, 1, url)
    ELSE Returned(Audio(p.format, body), NoLog, 1, 1, url)

\* lines 117-123: except Exception logs str(exc); str(asyncio.TimeoutError())
\* is the empty string
AsyncFailure(p, url, text) ==
    Returned(None,
             [template |-> "TTS request failure at %s in ha_tts_adapter: %s",
              args |-> <<p.base_url, text>>],
             1, 1, url)

\* async_get_tts_audio acquiring its client session on entry, before the base
\* URL is looked at
AsyncGetTtsAudioEagerSession(p, message, env, sessionRaises) ==
    IF sessionRaises THEN Raised("RuntimeError", 0, 0)
    ELSE IF p.base_url = <<>> THEN [MissingBaseUrl EXCEPT !.sessions = 1]
    ELSE IF QuoteRaises(message) THEN Raised("UnicodeEncodeError", 0, 1)
    ELSE LET url == BuildUrl(p.base_url, message)
         IN CASE env.kind = "timeout" -> AsyncFailure(p, url, <<>>)
              [] env.kind = "transport" -> AsyncFailure(p, url, ConnectionErrorText)
              [] OTHER -> AsyncMapResponse(p, url, env.status, env.body)

\* lines 81-123: async_get_tts_audio; quote and async_get_clientsession run
\* before the try statement
AsyncGetTtsAudio(p, message, env, sessionRaises) ==
    IF p.base_url = <<>> THEN MissingBaseUrl
    ELSE IF QuoteRaises(message) THEN Raised("UnicodeEncodeError", 0, 0)
    ELSE IF sessionRaises THEN Raised("RuntimeError", 0, 0)
    ELSE LET url == BuildUrl(p.base_url, message)
         IN CASE env.kind = "timeout" -> AsyncFailure(p, url, <<>>)
              [] env.kind = "transport" -> AsyncFailure(p, url, ConnectionErrorText)
              [] OTHER -> AsyncMapResponse(p, url, env.status, env.body)

NoCall ==
    [variant |-> "", message |-> <<>>, env |-> [kind |-> "", status |-> 0, body |-> <<>>],
     sessionRaises |-> FALSE, result |-> Raised("", 0, 0)]
NotReceived == [got |-> FALSE, line |-> <<>>]

AdapterInit ==
    /\ \E b \in BaseUrlOptions, t \in TimeoutOptions : self = NewProvider(b, t)
    /\ call = NoCall
    /\ received = NotReceived

\* the host calls the blocking variant
CallGetTtsAudio ==
    /\ call = NoCall
    /\ \E message \in Messages, env \in Envs :
         call' = [variant |-> "sync", message |-> message, env |-> env,
                  sessionRaises |-> FALSE, result |-> GetTtsAudio(self, message, env)]
    /\ received' = NotReceived
    /\ UNCHANGED <<self, evars>>

\* the host awaits the suspending variant
CallAsyncGetTtsAudio ==
    /\ call = NoCall
    /\ \E message \in Messages, env \in Envs, sessionRaises \in BOOLEAN :
         call' = [variant |-> "async", message |-> message, env |-> env,
                  sessionRaises |-> sessionRaises,
                  result |-> AsyncGetTtsAudio(self, message, env, sessionRaises)]
    /\ received' = NotReceived
    /\ UNCHANGED <<self, evars>>

\* synthesize(), line 71: the endpoint that answered the GET decodes its URL
ReceiveRequest ==
    /\ call.result.netCalls = 1
    /\ call.env.kind = "response"
    /\ ~received.got
    /\ received' = [got |-> TRUE, line |-> DecodeLine(call.result.url)]
    /\ UNCHANGED <<self, call, evars>>

\* ------------------------------------------------------- specifications
Init ==
    /\ EndpointInit
    /\ self = NewProvider(UrlH, DEFAULT_TIMEOUT)
    /\ call = NoCall
    /\ received = NotReceived

Next ==
    \E r \in Requests :
        \/ Start(r)
        \/ MkTemp(r)
        \/ SaveWav(r)
        \/ Ffmpeg(r)
        \/ ReadMp3(r)
        \/ FinWav(r)
        \/ FinMp3(r)
        \/ UnlinkMp3(r)

\* the endpoint serving NumRequests concurrent requests
Spec == Init /\ [][Next]_vars

AdapterSpecInit ==
    /\ AdapterInit
    /\ accentLoaded = TRUE
    /\ pc = [r \in Requests |-> "idle"]
    /\ req = [r \in Requests |-> InitReq]
    /\ fs = [p \in Paths |-> NoFile]
    /\ response = [r \in Requests |-> NoResponse]

AdapterNext ==
    \/ CallGetTtsAudio
    \/ CallAsyncGetTtsAudio
    \/ ReceiveRequest

\* one provider, one call of either variant, and the endpoint's view of its URL
AdapterSpec == AdapterSpecInit /\ [][AdapterNext]_vars

\* ------------------------------------------------------ endpoint claims
Done(r) == pc[r] = "done"
Embeds(body, part) == \E i \in DOMAIN body : body[i] = part

\* C3: once a request that reached the Encode stage has its response, no
\* temporary file it created exists, whichever way the stage ended.
C3_TempFilesRemoved ==
    \A r \in Requests :
        Done(r) /\ req[r].encode
            => \A p \in Paths : ~(fs[p].exists /\ fs[p].creator = r)

\* a request whose transcoder exited non-zero, leaving a partial file, is done
C3_Witness ==
    \E r \in Requests :
        /\ Done(r) /\ req[r].encode
        /\ req[r].raisedBy.type = "CalledProcessError"
        /\ response[r].status = 500

\* C4: a non-zero transcoder exit gives status 500 and a message that embeds
\* the error output captured from the transcoder.
C4_TranscoderOutputEmbedded ==
    \A r \in Requests :
        Done(r) /\ req[r].raisedBy.type = "CalledProcessError"
            => /\ response[r].status = 500
               /\ Embeds(response[r].body, req[r].raisedBy.stderr)

\* C5: any other exception of a pipeline stage gives status 500 and a message
\* that embeds the string form of the exception the failing stage raised.
C5_ExceptionTextEmbedded ==
    \A r \in Requests :
        Done(r) /\ req[r].raisedBy # NoExc /\ req[r].raisedBy.type # "CalledProcessError"
            => /\ response[r].status = 500
               /\ \A i \in DOMAIN StrExc(req[r].raisedBy) :
                    Embeds(response[r].body, StrExc(req[r].raisedBy)[i])

\* C7 as stated: when the accent transform raises, the undecorated decoded
\* text is synthesized, and the response is 200 with its audio when the later
\* stages succeed.
C7_UndecoratedTextSynthesized ==
    \A r \in Requests :
        pc[r] # "idle" /\ req[r].accentRaised
            => /\ req[r].synthText = req[r].line
               /\ (Done(r) /\ req[r].raisedBy = NoExc
                     => response[r] = [status |-> 200, body |-> <<"mp3", req[r].line>>])

\* C7 as amended: when the accent transform raises, the decoded text after the
\* fixed-phrase patch of line 79 is synthesized, and the response is 200 with
\* its audio when the later stages succeed.
C7_PatchedFallbackSynthesized ==
    \A r \in Requests :
        pc[r] # "idle" /\ req[r].accentRaised
            => /\ req[r].synthText = Patch(req[r].line)
               /\ (Done(r) /\ req[r].raisedBy = NoExc
                     => response[r] = [status |-> 200, body |-> <<"mp3", Patch(req[r].line)>>])

\* the accent transform raised, the text is the one the patch rewrites, and
\* the request was answered 200
C7_Witness ==
    \E r \in Requests :
        /\ Done(r) /\ req[r].accentRaised
        /\ req[r].line = "Ne shm+ogla"
        /\ response[r].status = 200

\* C10: no request reads, writes, tests or deletes a temporary path that
\* another request is still using.
C10_TempFilesNotShared ==
    \A r \in Requests, o \in Requests :
        r # o => Touches(r) \cap Using(o) = {}

\* ------------------------------------------------------- adapter claims
Called == call.variant # ""

\* the endpoint was reached and answered 200 with a non-empty body
AnsweredOkWithBody ==
    /\ call.result.netCalls = 1
    /\ call.env.kind = "response"
    /\ call.env.status = 200
    /\ call.env.body # <<>>

\* C1: with a base URL configured, either variant returns (format, body)
\* exactly when the endpoint answered 200 with a non-empty body, and
\* (None, None) for a 200 with an empty body and for every other status.
C1_AudioIffOkNonEmpty ==
    Called /\ self.base_url # <<>>
        => /\ AnsweredOkWithBody
                => call.result.returned /\ call.result.ret = Audio(self.format, call.env.body)
           /\ ~call.result.ret.none => AnsweredOkWithBody
           /\ call.result.netCalls = 1 /\ call.env.kind = "response" /\ ~AnsweredOkWithBody
                => call.result.returned /\ call.result.ret = None

\* the suspending variant returned audio
C1_Witness ==
    /\ call.variant = "async"
    /\ AnsweredOkWithBody
    /\ ~call.result.ret.none

\* C2: no call of either variant lets an exception reach the host; every
\* failure ends in (None, None) and a logged diagnostic.
C2_NeverRaises ==
    Called =>
        /\ call.result.raised = ""
        /\ call.result.returned
        /\ call.result.ret.none => call.result.log # NoLog

\* C6: the text the endpoint decodes from the URL is the non-empty text the
\* adapter was called with.
C6_RoundTrip ==
    received.got /\ call.message # <<>> => received.line = call.message

\* C8: for the same provider, text and endpoint outcome the suspending variant
\* returns and logs what the blocking variant does, and on a timeout both log
\* the configured timeout.
C8_VariantsAgree ==
    call.variant = "async" /\ ~call.sessionRaises /\ ~QuoteRaises(call.message)
        => LET blocking == GetTtsAudio(self, call.message, call.env)
           IN /\ call.result.ret = blocking.ret
              /\ call.result.log = blocking.log
              /\ call.env.kind = "timeout" /\ self.base_url # <<>>
                    => /\ Embeds(call.result.log.args, <<self.timeout>>)
                       /\ Embeds(blocking.log.args, <<self.timeout>>)

\* C9: without a base URL either variant returns (None, None), issues no
\* network call, and the suspending variant acquires no client session.
C9_NoBaseUrlNoNetwork ==
    Called /\ self.base_url = <<>>
        => /\ call.result.returned
           /\ call.result.ret = None
           /\ call.result.netCalls = 0
           /\ call.result.sessions = 0

\* the suspending variant was called without a base URL while acquiring a
\* client session would have failed
C9_Witness ==
    /\ call.variant = "async"
    /\ self.base_url = <<>>
    /\ call.sessionRaises
    /\ call.result.returned

====
